---- MODULE Spec2Model ----
(***************************************************************************)
(* Model of custom-tracing-logger (src/src/lib.rs): init(),                *)
(* validate_config() and print_config(), the environment they read, the    *)
(* directories they create and the process-wide default subscriber that    *)
(* try_init() sets once.                                                   *)
(*                                                                         *)
(* Strings the code only compares (LOG_FILE_ONLY, LOG_ENABLE_SPANS,        *)
(* LOG_FILE_DIR, LOG_FILE_PREFIX) are TLA+ strings.  The RUST_LOG value is *)
(* trimmed and parsed, so it is a sequence of tokens: a token is a         *)
(* whitespace character, "=", "," or a word.                               *)
(***************************************************************************)
EXTENDS Integers, Sequences, FiniteSets, TLC

(* ------------------------------ bounds -------------------------------- *)

\* number of threads that call init() concurrently (SpecConc)
NumThreads == 2

\* number of std::env::set_var calls that may interleave with the
\* concurrent init() calls (SpecConc)
MaxEnvChanges == 1

Threads == 1 .. NumThreads

\* the single caller of the sequential specification
SeqThreads == { 1 }

(* --------------------------- Option values ---------------------------- *)

None == << >>

Some(v) == << v >>

IsSome(o) == Len(o) = 1

Unwrap(o) == o[1]

(* --------------------------- the environment -------------------------- *)

RustLogValues ==
    { None,
      Some(<< "debug" >>),
      Some(<< " ", "debug", " " >>),
      Some(<< "a", "=", "b", "=", "c" >>),
      Some(<< "\t", "a", "=", "b", "=", "c", " " >>) }

\* "logs" can be created; "/dev/null/logs" can never be created or opened
LogFileDirValues == { None, Some("logs"), Some("/dev/null/logs") }

CreatableDirs == { "logs" }

LogFilePrefixValues == { None, Some("myapp") }

LogFileOnlyValues == { None, Some("true"), Some("TRUE"), Some("") }

LogEnableSpansValues == { None, Some("true"), Some("false"), Some("1") }

EnvValues(k) ==
    CASE k = "RUST_LOG" -> RustLogValues
      [] k = "LOG_FILE_DIR" -> LogFileDirValues
      [] k = "LOG_FILE_PREFIX" -> LogFilePrefixValues
      [] k = "LOG_FILE_ONLY" -> LogFileOnlyValues
      [] k = "LOG_ENABLE_SPANS" -> LogEnableSpansValues

EnvKeys ==
    { "RUST_LOG", "LOG_FILE_DIR", "LOG_FILE_PREFIX", "LOG_FILE_ONLY",
      "LOG_ENABLE_SPANS" }

Environments ==
    [ RUST_LOG : RustLogValues,
      LOG_FILE_DIR : LogFileDirValues,
      LOG_FILE_PREFIX : LogFilePrefixValues,
      LOG_FILE_ONLY : LogFileOnlyValues,
      LOG_ENABLE_SPANS : LogEnableSpansValues ]

EmptyEnv ==
    [ RUST_LOG |-> None,
      LOG_FILE_DIR |-> None,
      LOG_FILE_PREFIX |-> None,
      LOG_FILE_ONLY |-> None,
      LOG_ENABLE_SPANS |-> None ]

(* ----------------------- str::trim on token strings ------------------- *)

Whitespace == { " ", "\t" }

RECURSIVE trim_start(_)
trim_start(s) ==
    IF s # << >> /\ Head(s) \in Whitespace THEN trim_start(Tail(s)) ELSE s

RECURSIVE trim_end(_)
trim_end(s) ==
    IF s # << >> /\ s[Len(s)] \in Whitespace
    THEN trim_end(SubSeq(s, 1, Len(s) - 1))
    ELSE s

trim(s) == trim_end(trim_start(s))

(* ------------------------------ EnvFilter ----------------------------- *)

Levels == { "trace", "debug", "info", "warn", "error", "off" }

IsWord(tok) == tok \notin (Whitespace \cup { "=", "," })

\* the directives of a filter string: its comma-separated, non-empty parts
RECURSIVE SplitDirectives(_, _)
SplitDirectives(s, cur) ==
    IF s = << >>
    THEN IF cur = << >> THEN << >> ELSE << cur >>
    ELSE IF Head(s) = ","
         THEN (IF cur = << >> THEN << >> ELSE << cur >>)
                  \o SplitDirectives(Tail(s), << >>)
         ELSE SplitDirectives(Tail(s), Append(cur, Head(s)))

\* a directive is `level`, `target` or `target=level`
ValidDirective(d) ==
    \/ Len(d) = 1 /\ IsWord(d[1])
    \/ Len(d) = 3 /\ IsWord(d[1]) /\ d[2] = "=" /\ d[3] \in Levels

\* EnvFilter::new: the directives that parse; the others are ignored
EnvFilter_new(s) == SelectSeq(SplitDirectives(s, << >>), ValidDirective)

\* EnvFilter::try_new: Err when a directive does not parse
EnvFilter_try_new(s) ==
    LET ds == SplitDirectives(s, << >>)
    IN  IF \A i \in 1 .. Len(ds) : ValidDirective(ds[i])
        THEN [ tag |-> "Ok", val |-> ds ]
        ELSE [ tag |-> "Err", val |-> s ]

(* --------------------- configuration read by init() ------------------- *)

\* lines 77-80: the filter built from RUST_LOG, trimmed, or from "info"
init_env_filter(e) ==
    IF IsSome(e.RUST_LOG)
    THEN EnvFilter_new(trim(Unwrap(e.RUST_LOG)))
    ELSE EnvFilter_new(<< "info" >>)

\* line 83
init_log_file_dir(e) == e.LOG_FILE_DIR

\* line 84
init_log_file_prefix(e) ==
    IF IsSome(e.LOG_FILE_PREFIX) THEN Unwrap(e.LOG_FILE_PREFIX) ELSE "app"

\* line 85: unwrap_or_default() == "true"
init_file_only(e) ==
    (IF IsSome(e.LOG_FILE_ONLY) THEN Unwrap(e.LOG_FILE_ONLY) ELSE "") = "true"

\* init_enable_spans disabling on "false" only
init_enable_spans_unless_false(e) ==
    (IF IsSome(e.LOG_ENABLE_SPANS) THEN Unwrap(e.LOG_ENABLE_SPANS) ELSE "true")
        # "false"

\* lines 86-87: unwrap_or_else(|_| "true") == "true"
init_enable_spans(e) ==
    (IF IsSome(e.LOG_ENABLE_SPANS) THEN Unwrap(e.LOG_ENABLE_SPANS) ELSE "true")
        = "true"

init_config(e) ==
    [ env_filter |-> init_env_filter(e),
      log_file_dir |-> init_log_file_dir(e),
      log_file_prefix |-> init_log_file_prefix(e),
      file_only |-> init_file_only(e),
      enable_spans |-> init_enable_spans(e) ]

(* ------------------------- layers built by init() --------------------- *)

SpanEvents(enable_spans) == IF enable_spans THEN { "ENTER", "EXIT" } ELSE { }

\* fmt::layer().json().with_current_span(..).with_span_list(false), writing
\* to standard output, with ENTER | EXIT span events when spans are enabled
console_layer(enable_spans) ==
    [ writer |-> << "stdout" >>,
      current_span |-> enable_spans,
      span_list |-> FALSE,
      span_events |-> SpanEvents(enable_spans) ]

\* file_layer with the span events requested unconditionally
file_layer_always_spans(enable_spans, log_dir, log_file_prefix) ==
    [ writer |-> << "file", log_dir, log_file_prefix >>,
      current_span |-> enable_spans,
      span_list |-> FALSE,
      span_events |-> { "ENTER", "EXIT" } ]

\* the same layer writing to the daily rolling file <log_dir>/<prefix>.<date>
file_layer(enable_spans, log_dir, log_file_prefix) ==
    [ writer |-> << "file", log_dir, log_file_prefix >>,
      current_span |-> enable_spans,
      span_list |-> FALSE,
      span_events |-> SpanEvents(enable_spans) ]

\* init_layers with the console layer kept in the file-only arm
init_layers_console_kept(c) ==
    IF IsSome(c.log_file_dir)
    THEN { console_layer(c.enable_spans),
           file_layer(c.enable_spans, Unwrap(c.log_file_dir),
                      c.log_file_prefix) }
    ELSE { console_layer(c.enable_spans) }

\* lines 91-150: the layers of the three arms of the match
init_layers(c) ==
    IF IsSome(c.log_file_dir)
    THEN IF ~c.file_only
         THEN { console_layer(c.enable_spans),
                file_layer(c.enable_spans, Unwrap(c.log_file_dir),
                           c.log_file_prefix) }
         ELSE { file_layer(c.enable_spans, Unwrap(c.log_file_dir),
                           c.log_file_prefix) }
    ELSE { console_layer(c.enable_spans) }

\* init_registry with file-only honoured when no directory is set: no layer
init_registry_zero_sinks(c) ==
    [ env_filter |-> c.env_filter,
      layers |->
          IF IsSome(c.log_file_dir)
          THEN IF ~c.file_only
               THEN { console_layer(c.enable_spans),
                      file_layer(c.enable_spans, Unwrap(c.log_file_dir),
                                 c.log_file_prefix) }
               ELSE { file_layer(c.enable_spans, Unwrap(c.log_file_dir),
                                 c.log_file_prefix) }
          ELSE IF c.file_only THEN { } ELSE { console_layer(c.enable_spans) } ]

\* line 89 and the .with(layer) calls: the subscriber handed to try_init
init_registry(c) == [ env_filter |-> c.env_filter, layers |-> init_layers(c) ]

\* RollingFileAppender::new opens the log file, creating the directory when
\* it is missing, and unwraps the result: it panics when that fails
file_appender_panics(c) ==
    IsSome(c.log_file_dir) /\ Unwrap(c.log_file_dir) \notin CreatableDirs

(* ---------------------------- validate_config ------------------------- *)

\* validate_rust_log keeping the trimmed value
validate_rust_log_trimmed(e) ==
    IF IsSome(e.RUST_LOG) THEN trim(Unwrap(e.RUST_LOG)) ELSE << "info" >>

\* validate_rust_log with the default of an unfiltered build
validate_rust_log_default_debug(e) ==
    IF IsSome(e.RUST_LOG) THEN Unwrap(e.RUST_LOG) ELSE << "debug" >>

\* line 155
validate_rust_log(e) ==
    IF IsSome(e.RUST_LOG) THEN Unwrap(e.RUST_LOG) ELSE << "info" >>

\* line 156
validate_log_file_dir(e) == e.LOG_FILE_DIR

\* line 157
validate_log_file_prefix(e) ==
    IF IsSome(e.LOG_FILE_PREFIX) THEN Unwrap(e.LOG_FILE_PREFIX) ELSE "app"

\* validate_file_only comparing without regard to case
validate_file_only_nocase(e) ==
    (IF IsSome(e.LOG_FILE_ONLY) THEN Unwrap(e.LOG_FILE_ONLY) ELSE "")
        \in { "true", "TRUE" }

\* line 158
validate_file_only(e) ==
    (IF IsSome(e.LOG_FILE_ONLY) THEN Unwrap(e.LOG_FILE_ONLY) ELSE "") = "true"

\* lines 159-160
validate_enable_spans(e) ==
    (IF IsSome(e.LOG_ENABLE_SPANS) THEN Unwrap(e.LOG_ENABLE_SPANS) ELSE "true")
        = "true"

validate_locals(e) ==
    [ rust_log |-> validate_rust_log(e),
      log_file_dir |-> validate_log_file_dir(e),
      log_file_prefix |-> validate_log_file_prefix(e),
      file_only |-> validate_file_only(e),
      enable_spans |-> validate_enable_spans(e) ]

\* validate_filter parsing the value as it was read
validate_filter_untrimmed(c) == EnvFilter_try_new(c.rust_log)

\* line 163: the filter is parsed from the trimmed value
validate_filter(c) == EnvFilter_try_new(trim(c.rust_log))

\* line 169: create_dir_all succeeds exactly on the directories that can be
\* created (an existing directory included)
create_dir_all_ok(dir) == dir \in CreatableDirs

\* validate_mode with the two file arms exchanged
validate_mode_swapped(c) ==
    IF IsSome(c.log_file_dir)
    THEN IF c.file_only
         THEN "Console + File logging to " \o Unwrap(c.log_file_dir) \o "/"
                  \o c.log_file_prefix \o ".YYYY-MM-DD"
         ELSE "File-only logging to " \o Unwrap(c.log_file_dir) \o "/"
                  \o c.log_file_prefix \o ".YYYY-MM-DD"
    ELSE "Console-only logging"

\* lines 174-184
validate_mode(c) ==
    IF IsSome(c.log_file_dir)
    THEN IF ~c.file_only
         THEN "Console + File logging to " \o Unwrap(c.log_file_dir) \o "/"
                  \o c.log_file_prefix \o ".YYYY-MM-DD"
         ELSE "File-only logging to " \o Unwrap(c.log_file_dir) \o "/"
                  \o c.log_file_prefix \o ".YYYY-MM-DD"
    ELSE "Console-only logging"

\* line 186
validate_spans_status(c) == IF c.enable_spans THEN "enabled" ELSE "disabled"

\* lines 162-191: the value validate_config returns.  The summary is the
\* three values that format! embeds, in the order of the format string.
validate_result(c) ==
    IF validate_filter(c).tag = "Err"
    THEN [ tag |-> "Err",
           val |-> [ what |-> "Invalid RUST_LOG format",
                     error |-> "invalid filter directive" ] ]
    ELSE IF IsSome(c.log_file_dir) /\ ~create_dir_all_ok(Unwrap(c.log_file_dir))
    THEN [ tag |-> "Err",
           val |-> [ what |-> "Cannot create log directory",
                     path |-> Unwrap(c.log_file_dir),
                     error |-> "io error" ] ]
    ELSE [ tag |-> "Ok",
           val |-> [ rust_log |-> c.rust_log,
                     mode |-> validate_mode(c),
                     spans |-> validate_spans_status(c) ] ]

\* validate_created with the directory only tested, never created
validate_created_never(c) == { }

\* validate_created with the directory created before the filter is parsed
validate_created_first(c) ==
    IF IsSome(c.log_file_dir) /\ create_dir_all_ok(Unwrap(c.log_file_dir))
    THEN { Unwrap(c.log_file_dir) }
    ELSE { }

\* lines 168-172: the directory validate_config creates, if it gets that far
validate_created(c) ==
    IF /\ validate_filter(c).tag = "Ok"
       /\ IsSome(c.log_file_dir)
       /\ create_dir_all_ok(Unwrap(c.log_file_dir))
    THEN { Unwrap(c.log_file_dir) }
    ELSE { }

(* -------------------------------- state ------------------------------- *)

VARIABLES
    env,              \* the process environment
    dirs,             \* the directories that exist
    pc,               \* pc[t]: where thread t is in init()
    seen,             \* seen[t]: the environment init() read in thread t
    cfg,              \* cfg[t]: the locals of init() in thread t
    registry,         \* registry[t]: the subscriber init() built in thread t
    GLOBAL_INIT,      \* state of the set-once global default
    GLOBAL_DISPATCH,  \* the installed subscriber, if any
    initOut,          \* initOut[t]: how the last init() of thread t ended
    valOut,           \* valOut[t]: the last validate_config() of thread t
    envChanges        \* set_var calls made while init() calls are running

vars ==
    << env, dirs, pc, seen, cfg, registry, GLOBAL_INIT, GLOBAL_DISPATCH,
       initOut, valOut, envChanges >>

NoneEach == [ t \in Threads |-> None ]

InitCommon ==
    /\ pc = [ t \in Threads |-> "idle" ]
    /\ seen = NoneEach
    /\ cfg = NoneEach
    /\ registry = NoneEach
    /\ GLOBAL_INIT = "UNINITIALIZED"
    /\ GLOBAL_DISPATCH = None
    /\ initOut = NoneEach
    /\ valOut = NoneEach
    /\ envChanges = 0

\* a process starts with any environment; the log directory may exist
Init ==
    /\ env \in Environments
    /\ dirs \in SUBSET CreatableDirs
    /\ InitCommon

\* a process started with none of the variables set
InitConc ==
    /\ env = EmptyEnv
    /\ dirs = { }
    /\ InitCommon

(* -------------------------------- init() ------------------------------ *)

\* how an init() call ended: result is "Ok" (try_init installed the
\* subscriber), "Err" (try_init failed and `let _ =` dropped the error) or
\* "panic" (the call unwound); registry is the subscriber it built, if any
InitOutcome(t, reg, result) ==
    Some([ seen |-> Unwrap(seen[t]),
           cfg |-> Unwrap(cfg[t]),
           registry |-> reg,
           result |-> result ])

\* lines 77-87: read the five variables
init_read(t) ==
    /\ pc[t] = "idle"
    /\ pc' = [ pc EXCEPT ![t] = "match" ]
    /\ seen' = [ seen EXCEPT ![t] = Some(env) ]
    /\ cfg' = [ cfg EXCEPT ![t] = Some(init_config(env)) ]
    /\ initOut' = [ initOut EXCEPT ![t] = None ]
    /\ UNCHANGED << env, dirs, registry, GLOBAL_INIT, GLOBAL_DISPATCH, valOut,
                    envChanges >>

\* lines 89-116, 120-133, 137-147: build the layers of the matching arm; the
\* file appender creates the log directory, or panics
init_match(t) ==
    /\ pc[t] = "match"
    /\ IF file_appender_panics(Unwrap(cfg[t]))
       THEN /\ pc' = [ pc EXCEPT ![t] = "idle" ]
            /\ initOut' = [ initOut EXCEPT ![t] = InitOutcome(t, None, "panic") ]
            /\ seen' = [ seen EXCEPT ![t] = None ]
            /\ cfg' = [ cfg EXCEPT ![t] = None ]
            /\ UNCHANGED << dirs, registry >>
       ELSE /\ pc' = [ pc EXCEPT ![t] = "try_init" ]
            /\ registry' =
                   [ registry EXCEPT ![t] = Some(init_registry(Unwrap(cfg[t]))) ]
            /\ dirs' = dirs \cup
                   ( IF IsSome(Unwrap(cfg[t]).log_file_dir)
                     THEN { Unwrap(Unwrap(cfg[t]).log_file_dir) }
                     ELSE { } )
            /\ UNCHANGED << seen, cfg, initOut >>
    /\ UNCHANGED << env, GLOBAL_INIT, GLOBAL_DISPATCH, valOut, envChanges >>

\* compare_exchange_ok without the set-once check
compare_exchange_ok_always(state) == TRUE

\* compare_exchange_ok as a plain test of "a subscriber is published"
compare_exchange_ok_unpublished(state) == state # "INITIALIZED"

\* set_global_default claims the slot with
\* compare_exchange(UNINITIALIZED, INITIALIZING)
compare_exchange_ok(state) == state = "UNINITIALIZED"

\* lines 117, 134, 148: try_init(); a failure is dropped by `let _ =`
try_init(t) ==
    /\ pc[t] = "try_init"
    /\ IF compare_exchange_ok(GLOBAL_INIT)
       THEN /\ GLOBAL_INIT' = "INITIALIZING"
            /\ pc' = [ pc EXCEPT ![t] = "set_default" ]
            /\ UNCHANGED << seen, cfg, registry, initOut >>
       ELSE /\ pc' = [ pc EXCEPT ![t] = "idle" ]
            /\ initOut' =
                   [ initOut EXCEPT ![t] = InitOutcome(t, registry[t], "Err") ]
            /\ seen' = [ seen EXCEPT ![t] = None ]
            /\ cfg' = [ cfg EXCEPT ![t] = None ]
            /\ registry' = [ registry EXCEPT ![t] = None ]
            /\ UNCHANGED GLOBAL_INIT
    /\ UNCHANGED << env, dirs, GLOBAL_DISPATCH, valOut, envChanges >>

\* the thread that claimed the slot stores its subscriber and publishes it
set_default(t) ==
    /\ pc[t] = "set_default"
    /\ GLOBAL_DISPATCH' = registry[t]
    /\ GLOBAL_INIT' = "INITIALIZED"
    /\ pc' = [ pc EXCEPT ![t] = "idle" ]
    /\ initOut' = [ initOut EXCEPT ![t] = InitOutcome(t, registry[t], "Ok") ]
    /\ seen' = [ seen EXCEPT ![t] = None ]
    /\ cfg' = [ cfg EXCEPT ![t] = None ]
    /\ registry' = [ registry EXCEPT ![t] = None ]
    /\ UNCHANGED << env, dirs, valOut, envChanges >>

(* ------------------- validate_config() and print_config() ------------- *)

\* lines 196-199: the stream print_config writes to
print_stream(result) == IF result.tag = "Ok" THEN "stdout" ELSE "stderr"

\* ValidateOutcome with the directory of the installed subscriber reused
\* in place of LOG_FILE_DIR
ValidateOutcome_cached(e, printed) ==
    LET f == IF IsSome(GLOBAL_DISPATCH)
             THEN [ e EXCEPT !.LOG_FILE_DIR =
                        IF \E l \in Unwrap(GLOBAL_DISPATCH).layers :
                               l.writer[1] = "file"
                        THEN Some((CHOOSE l \in Unwrap(GLOBAL_DISPATCH).layers :
                                       l.writer[1] = "file").writer[2])
                        ELSE None ]
             ELSE e
    IN  Some([ seen |-> f,
               locals |-> validate_locals(f),
               result |-> validate_result(validate_locals(f)),
               printed |-> printed ])

ValidateOutcome(e, printed) ==
    Some([ seen |-> e,
           locals |-> validate_locals(e),
           result |-> validate_result(validate_locals(e)),
           printed |-> printed ])

\* validate_config installing a console subscriber to report through
validate_config_installing(t) ==
    /\ pc[t] = "idle"
    /\ valOut' = [ valOut EXCEPT ![t] = ValidateOutcome(env, "none") ]
    /\ dirs' = dirs \cup validate_created(validate_locals(env))
    /\ GLOBAL_INIT' = "INITIALIZED"
    /\ GLOBAL_DISPATCH' =
           IF IsSome(GLOBAL_DISPATCH)
           THEN GLOBAL_DISPATCH
           ELSE Some([ env_filter |-> init_env_filter(env),
                       layers |-> { console_layer(TRUE) } ])
    /\ UNCHANGED << env, pc, seen, cfg, registry, initOut, envChanges >>

\* lines 154-192
validate_config(t) ==
    /\ pc[t] = "idle"
    /\ valOut' = [ valOut EXCEPT ![t] = ValidateOutcome(env, "none") ]
    /\ dirs' = dirs \cup validate_created(validate_locals(env))
    /\ UNCHANGED << env, pc, seen, cfg, registry, GLOBAL_INIT, GLOBAL_DISPATCH,
                    initOut, envChanges >>

\* lines 195-200
print_config(t) ==
    /\ pc[t] = "idle"
    /\ valOut' =
           [ valOut EXCEPT
               ![t] = ValidateOutcome(
                          env,
                          print_stream(validate_result(validate_locals(env)))) ]
    /\ dirs' = dirs \cup validate_created(validate_locals(env))
    /\ UNCHANGED << env, pc, seen, cfg, registry, GLOBAL_INIT, GLOBAL_DISPATCH,
                    initOut, envChanges >>

(* ----------------------- changes of the environment ------------------- *)

\* std::env::set_var(k, v), or remove_var(k) when v is None, by the host
set_var(k, v) ==
    /\ v # env[k]
    /\ env' = [ env EXCEPT ![k] = v ]
    /\ UNCHANGED << dirs, pc, seen, cfg, registry, GLOBAL_INIT, GLOBAL_DISPATCH >>

\* the caller changes the environment between two calls; the outcomes
\* recorded under the old environment are forgotten
SeqSetVar ==
    /\ \A t \in Threads : pc[t] = "idle"
    /\ \E k \in EnvKeys : \E v \in EnvValues(k) : set_var(k, v)
    /\ initOut' = NoneEach
    /\ valOut' = NoneEach
    /\ UNCHANGED envChanges

\* the environment changes while init() calls are running
ConcSetVar ==
    /\ envChanges < MaxEnvChanges
    /\ envChanges' = envChanges + 1
    /\ \E k \in EnvKeys : \E v \in EnvValues(k) : set_var(k, v)
    /\ UNCHANGED << initOut, valOut >>

(* ---------------------------- specifications -------------------------- *)

\* one caller: any sequence of init(), validate_config() and print_config()
\* calls, with changes of the environment between the calls
Next ==
    \/ \E t \in SeqThreads : init_read(t)
    \/ \E t \in SeqThreads : init_match(t)
    \/ \E t \in SeqThreads : try_init(t)
    \/ \E t \in SeqThreads : set_default(t)
    \/ \E t \in SeqThreads : validate_config(t)
    \/ \E t \in SeqThreads : print_config(t)
    \/ SeqSetVar

Spec == Init /\ [][Next]_vars

\* every thread calls init() once, in any interleaving with the others and
\* with changes of the environment
NextConc ==
    \/ \E t \in Threads : initOut[t] = None /\ init_read(t)
    \/ \E t \in Threads : init_match(t)
    \/ \E t \in Threads : try_init(t)
    \/ \E t \in Threads : set_default(t)
    \/ ConcSetVar

SpecConc == InitConc /\ [][NextConc]_vars

\* the callers of the specification that compares two values of RUST_LOG
PadThreads == { 1, 2 }

\* a process started with at most RUST_LOG and LOG_FILE_DIR set
InitPad ==
    /\ env \in { e \in Environments :
                    /\ e.LOG_FILE_PREFIX = None
                    /\ e.LOG_FILE_ONLY = None
                    /\ e.LOG_ENABLE_SPANS = None }
    /\ dirs = { }
    /\ InitCommon

\* RUST_LOG is set to another value between calls; the outcomes of the
\* calls made so far are kept
PadSetVar ==
    /\ \A t \in Threads : pc[t] = "idle"
    /\ envChanges < MaxEnvChanges
    /\ envChanges' = envChanges + 1
    /\ \E v \in RustLogValues : set_var("RUST_LOG", v)
    /\ UNCHANGED << initOut, valOut >>

\* two callers call init() and validate_config(), one before and one after
\* RUST_LOG is changed
NextPad ==
    \/ \E t \in PadThreads : init_read(t)
    \/ \E t \in PadThreads : init_match(t)
    \/ \E t \in PadThreads : try_init(t)
    \/ \E t \in PadThreads : set_default(t)
    \/ \E t \in PadThreads : validate_config(t)
    \/ PadSetVar

SpecPad == InitPad /\ [][NextPad]_vars

(* ------------------------------ properties ---------------------------- *)

\* the init() calls that are running or have ended, one record each
InitCalls ==
    { Unwrap(initOut[t]) : t \in { u \in Threads : IsSome(initOut[u]) } }
        \cup
    { [ seen |-> Unwrap(seen[t]), cfg |-> Unwrap(cfg[t]),
        registry |-> registry[t], result |-> "running" ] :
        t \in { u \in Threads : pc[u] # "idle" } }

\* the validate_config() and print_config() calls that have ended
ValidateCalls ==
    { Unwrap(valOut[t]) : t \in { u \in Threads : IsSome(valOut[u]) } }

\* the kinds of sink of a subscriber
SinkKinds(reg) == { l.writer[1] : l \in reg.layers }

DirPresent(e) == e.LOG_FILE_DIR # None

FileOnlyIsTrue(e) == e.LOG_FILE_ONLY = Some("true")

\* the decision table of the specification, on the raw environment
TableSinks(e) ==
    IF DirPresent(e)
    THEN IF FileOnlyIsTrue(e) THEN { "file" } ELSE { "stdout", "file" }
    ELSE { "stdout" }

HasTableSinks(c) ==
    /\ SinkKinds(Unwrap(c.registry)) = TableSinks(c.seen)
    /\ Cardinality(Unwrap(c.registry).layers) = Cardinality(TableSinks(c.seen))

FileOnlyNoDir(e) == FileOnlyIsTrue(e) /\ ~DirPresent(e)

Returns(t, result) ==
    /\ initOut'[t] # initOut[t]
    /\ IsSome(initOut'[t])
    /\ Unwrap(initOut'[t]).result = result

\* C3: once a subscriber is installed it is never replaced or changed; the
\* slot is filled only by an init() call that returns from a successful
\* try_init, with the subscriber that call built; and no init() call
\* succeeds in installing while a subscriber is installed.
C3_FirstInstallStays ==
    [][ /\ IsSome(GLOBAL_DISPATCH) => GLOBAL_DISPATCH' = GLOBAL_DISPATCH
        /\ (GLOBAL_DISPATCH = None /\ IsSome(GLOBAL_DISPATCH')) =>
               \E t \in Threads :
                   /\ Returns(t, "Ok")
                   /\ Unwrap(initOut'[t]).registry = GLOBAL_DISPATCH'
        /\ \A t \in Threads : Returns(t, "Ok") => GLOBAL_DISPATCH = None
      ]_vars

\* a later init(), which built a different subscriber, was swallowed
C3_Witness ==
    /\ IsSome(GLOBAL_DISPATCH)
    /\ \E c \in InitCalls :
           /\ c.result = "Err"
           /\ SinkKinds(Unwrap(c.registry)) # SinkKinds(Unwrap(GLOBAL_DISPATCH))

Installers ==
    { t \in Threads :
        \/ pc[t] = "set_default"
        \/ IsSome(initOut[t]) /\ Unwrap(initOut[t]).result = "Ok" }

AllReturned == \A t \in Threads : IsSome(initOut[t])

\* C4: with init() called once from every thread, in every interleaving at
\* most one call gets to install; the installed subscriber is whole, the one
\* that call built; and when all calls have returned and one of them reached
\* try_init, exactly one call installed.
C4_OneInstaller ==
    /\ Cardinality(Installers) <= 1
    /\ (GLOBAL_INIT = "UNINITIALIZED") = (Installers = { })
    /\ IsSome(GLOBAL_DISPATCH) =>
           \E t \in Threads :
               /\ IsSome(initOut[t])
               /\ Unwrap(initOut[t]).result = "Ok"
               /\ Unwrap(initOut[t]).registry = GLOBAL_DISPATCH
               /\ HasTableSinks(Unwrap(initOut[t]))
    /\ (AllReturned /\ \E t \in Threads : Unwrap(initOut[t]).result # "panic")
           => /\ Cardinality(Installers) = 1
              /\ IsSome(GLOBAL_DISPATCH)

\* two calls that built different subscribers race for the slot
C4_Witness ==
    \E t, u \in Threads :
        /\ pc[t] = "set_default"
        /\ pc[u] = "try_init"
        /\ SinkKinds(Unwrap(registry[t])) # SinkKinds(Unwrap(registry[u]))

\* C5 as stated: no call of init() ever panics, and print_config() always
\* returns after writing to one of the two streams.
C5_NeverPanics ==
    /\ \A c \in InitCalls : c.result # "panic"
    /\ \A v \in ValidateCalls : v.result.tag \in { "Ok", "Err" }

SpansVar(e) == e.LOG_ENABLE_SPANS

LayersEmitSpans(reg) ==
    \A l \in reg.layers : l.span_events = { "ENTER", "EXIT" }

LayersEmitNoSpans(reg) == \A l \in reg.layers : l.span_events = { }

C7_FileOnlyExact ==
    /\ \A c \in InitCalls :
           /\ c.cfg.file_only = FileOnlyIsTrue(c.seen)
           /\ (IsSome(c.registry) /\ "stdout" \notin SinkKinds(Unwrap(c.registry)))
                  => FileOnlyIsTrue(c.seen)
    /\ \A v \in ValidateCalls :
           /\ v.locals.file_only = FileOnlyIsTrue(v.seen)
           /\ ( /\ v.result.tag = "Ok"
                /\ DirPresent(v.seen)
                /\ ~FileOnlyIsTrue(v.seen) )
                  => v.result.val.mode =
                         "Console + File logging to "
                             \o Unwrap(v.seen.LOG_FILE_DIR) \o "/"
                             \o v.locals.log_file_prefix \o ".YYYY-MM-DD"

\* under LOG_FILE_ONLY "TRUE" with a directory, init() kept the console
\* sink and validate_config() reported success
C7_Witness ==
    /\ \E c \in InitCalls :
           /\ c.seen.LOG_FILE_ONLY = Some("TRUE")
           /\ DirPresent(c.seen)
           /\ c.result = "Ok"
           /\ "stdout" \in SinkKinds(Unwrap(c.registry))
    /\ \E v \in ValidateCalls :
           /\ v.seen.LOG_FILE_ONLY = Some("TRUE")
           /\ DirPresent(v.seen)
           /\ v.result.tag = "Ok"

\* the description of a subscriber's sinks in the words of the summary
DescribeTopology(reg) ==
    IF \E l \in reg.layers : l.writer[1] = "file"
    THEN LET f == CHOOSE l \in reg.layers : l.writer[1] = "file"
             to == f.writer[2] \o "/" \o f.writer[3] \o ".YYYY-MM-DD"
         IN  IF \E l \in reg.layers : l.writer[1] = "stdout"
             THEN "Console + File logging to " \o to
             ELSE "File-only logging to " \o to
    ELSE IF reg.layers = { } THEN "No logging" ELSE "Console-only logging"

\* C8: when validate_config() succeeded and init() ran on the same
\* environment, init() built a subscriber, the mode of the summary describes
\* that subscriber's sinks, and the spans status is its layers' span policy.
C8_ValidateAgreesWithInit ==
    \A v \in ValidateCalls : \A c \in InitCalls :
        (v.result.tag = "Ok" /\ v.seen = c.seen /\ c.result # "running") =>
            /\ IsSome(c.registry)
            /\ v.result.val.mode = DescribeTopology(Unwrap(c.registry))
            /\ IF v.result.val.spans = "enabled"
               THEN LayersEmitSpans(Unwrap(c.registry))
               ELSE /\ v.result.val.spans = "disabled"
                    /\ LayersEmitNoSpans(Unwrap(c.registry))

\* validate_config() succeeded and init() returned on one environment that
\* asks for file-only logging without spans
C8_Witness ==
    \E v \in ValidateCalls : \E c \in InitCalls :
        /\ v.result.tag = "Ok"
        /\ v.seen = c.seen
        /\ c.result \in { "Ok", "Err" }
        /\ DirPresent(v.seen)
        /\ FileOnlyIsTrue(v.seen)
        /\ SpansVar(v.seen) = Some("false")

\* C9: with none of the five variables set, validate_config() returns Ok
\* and the summary embeds the filter "info", the mode "Console-only logging"
\* and the spans status "enabled".
C9_DefaultSummary ==
    \A v \in ValidateCalls :
        v.seen = EmptyEnv =>
            /\ v.result.tag = "Ok"
            /\ v.result.val.rust_log = << "info" >>
            /\ v.result.val.mode = "Console-only logging"
            /\ v.result.val.spans = "enabled"

\* validate_config() returned with no variable set
C9_Witness == \E v \in ValidateCalls : v.seen = EmptyEnv

\* the RUST_LOG values of the model that are no filter expression
InvalidFilters ==
    { << "a", "=", "b", "=", "c" >>,
      << "\t", "a", "=", "b", "=", "c", " " >> }

HasInvalidFilter(e) ==
    IsSome(e.RUST_LOG) /\ Unwrap(e.RUST_LOG) \in InvalidFilters

\* C10 as stated: on an invalid RUST_LOG value validate_config() returns an
\* error, while init() returns normally and hands try_init a subscriber
\* with the sinks of the decision table.
C10_InvalidFilterOnlyInValidator ==
    /\ \A v \in ValidateCalls :
           HasInvalidFilter(v.seen) => v.result.tag = "Err"
    /\ \A c \in InitCalls :
           (HasInvalidFilter(c.seen) /\ c.result # "running") =>
               /\ c.result \in { "Ok", "Err" }
               /\ HasTableSinks(c)

\* p is s with whitespace added in front and behind
IsPaddingOf(p, s) ==
    \E a \in 0 .. Len(p) :
        /\ a + Len(s) <= Len(p)
        /\ SubSeq(p, a + 1, a + Len(s)) = s
        /\ \A k \in 1 .. Len(p) :
               (k <= a \/ k > a + Len(s)) => p[k] \in { " ", "\t" }

\* the environments e and f differ at most in RUST_LOG, where f holds the
\* value of e with whitespace around it
PaddedEnv(f, e) ==
    /\ IsSome(e.RUST_LOG)
    /\ IsSome(f.RUST_LOG)
    /\ IsPaddingOf(Unwrap(f.RUST_LOG), Unwrap(e.RUST_LOG))
    /\ [ f EXCEPT !.RUST_LOG = None ] = [ e EXCEPT !.RUST_LOG = None ]

\* C11: when two calls read environments that differ only by whitespace
\* around the RUST_LOG value, validate_config() returns Ok for both or the
\* same kind of error for both, and init() builds the same filter for both.
C11_PaddingIgnored ==
    /\ \A v \in ValidateCalls : \A w \in ValidateCalls :
           PaddedEnv(w.seen, v.seen) =>
               /\ w.result.tag = v.result.tag
               /\ w.result.tag = "Err" => w.result.val.what = v.result.val.what
    /\ \A c \in InitCalls : \A d \in InitCalls :
           PaddedEnv(d.seen, c.seen) => d.cfg.env_filter = c.cfg.env_filter

\* validate_config() and init() ran on "debug" and on " debug "
C11_Witness ==
    /\ \E v \in ValidateCalls : \E w \in ValidateCalls :
           /\ v.seen.RUST_LOG = Some(<< "debug" >>)
           /\ w.seen.RUST_LOG = Some(<< " ", "debug", " " >>)
           /\ v.result.tag = "Ok"
           /\ w.result.tag = "Ok"
    /\ \E c \in InitCalls : \E d \in InitCalls :
           /\ c.seen.RUST_LOG = Some(<< "debug" >>)
           /\ d.seen.RUST_LOG = Some(<< " ", "debug", " " >>)
           /\ c.result = "Ok"
           /\ d.result = "Err"

\* C12: a validate_config() call that read a LOG_FILE_DIR and a valid
\* filter returns Ok, with the directory existing afterwards, when the
\* directory can be created; otherwise it returns the error "Cannot create
\* log directory" with the path and the I/O error, and no summary.
C12_DirectoryCreatedOrReported ==
    \A v \in ValidateCalls :
        (DirPresent(v.seen) /\ ~HasInvalidFilter(v.seen)) =>
            IF Unwrap(v.seen.LOG_FILE_DIR) \in { "logs" }
            THEN /\ v.result.tag = "Ok"
                 /\ Unwrap(v.seen.LOG_FILE_DIR) \in dirs
            ELSE /\ v.result.tag = "Err"
                 /\ v.result.val.what = "Cannot create log directory"
                 /\ v.result.val.path = Unwrap(v.seen.LOG_FILE_DIR)
                 /\ v.result.val.error = "io error"
                 /\ Unwrap(v.seen.LOG_FILE_DIR) \notin dirs

\* validate_config() returned Ok and the directory exists, while no init()
\* call has built a file sink
C12_Witness ==
    /\ \E v \in ValidateCalls :
           /\ v.seen.LOG_FILE_DIR = Some("logs")
           /\ v.result.tag = "Ok"
    /\ "logs" \in dirs
    /\ GLOBAL_INIT = "UNINITIALIZED"
    /\ InitCalls = { }

\* thread t returns from validate_config() or print_config() in this step
Validates(t) == valOut'[t] # valOut[t] /\ IsSome(valOut'[t])

\* C13: a step in which validate_config() or print_config() returns leaves
\* the install slot as it was, installed or not; and an init() call that
\* gets to install after such a call installs the subscriber it built.
C13_ValidateLeavesSlot ==
    [][ /\ (\E t \in Threads : Validates(t)) =>
               /\ GLOBAL_INIT' = GLOBAL_INIT
               /\ GLOBAL_DISPATCH' = GLOBAL_DISPATCH
        /\ \A t \in Threads :
               (IsSome(valOut[t]) /\ pc[t] = "set_default") =>
                   /\ GLOBAL_DISPATCH = None
                   /\ GLOBAL_DISPATCH' = registry[t]
      ]_vars

\* print_config() returned before any subscriber was installed, and the
\* init() call that followed is about to install
C13_Witness ==
    \E t \in Threads :
        /\ IsSome(valOut[t])
        /\ Unwrap(valOut[t]).printed = "stdout"
        /\ pc[t] = "set_default"
        /\ GLOBAL_DISPATCH = None

\* the mode line for an environment, by the decision table
ModeOfEnv(e) ==
    LET to == Unwrap(e.LOG_FILE_DIR) \o "/"
                  \o (IF e.LOG_FILE_PREFIX = None
                      THEN "app" ELSE Unwrap(e.LOG_FILE_PREFIX))
                  \o ".YYYY-MM-DD"
    IN  IF ~DirPresent(e)
        THEN "Console-only logging"
        ELSE IF FileOnlyIsTrue(e)
             THEN "File-only logging to " \o to
             ELSE "Console + File logging to " \o to

\* C14: every validate_config() outcome was computed from the environment
\* as it is now, whatever was installed before: on success its mode line is
\* that of the current environment.
C14_ReadAfresh ==
    \A v \in ValidateCalls :
        /\ v.seen = env
        /\ v.result.tag = "Ok" => v.result.val.mode = ModeOfEnv(env)

\* a console-only subscriber is installed, the environment was changed,
\* and validate_config() now reports file-only logging
C14_Witness ==
    /\ IsSome(GLOBAL_DISPATCH)
    /\ SinkKinds(Unwrap(GLOBAL_DISPATCH)) = { "stdout" }
    /\ \E v \in ValidateCalls :
           /\ v.result.tag = "Ok"
           /\ v.result.val.mode = "File-only logging to logs/app.YYYY-MM-DD"

\* C15: in every subscriber init() builds, each layer has the span policy
\* of that call's enable_spans: ENTER and EXIT events and the current span
\* when it is true, neither when it is false; so no two layers differ.
C15_UniformSpanPolicy ==
    \A c \in InitCalls :
        IsSome(c.registry) =>
            /\ \A l \in Unwrap(c.registry).layers :
                   /\ l.current_span = c.cfg.enable_spans
                   /\ l.span_events =
                          IF c.cfg.enable_spans THEN { "ENTER", "EXIT" } ELSE { }
            /\ \A l1 \in Unwrap(c.registry).layers :
                   \A l2 \in Unwrap(c.registry).layers :
                       /\ l1.span_events = l2.span_events
                       /\ l1.current_span = l2.current_span

\* a console + file subscriber was built with spans disabled
C15_Witness ==
    \E c \in InitCalls :
        /\ IsSome(c.registry)
        /\ Cardinality(Unwrap(c.registry).layers) = 2
        /\ ~c.cfg.enable_spans

HasNoOuterWhitespace(s) ==
    s = << >> \/ (s[1] \notin { " ", "\t" } /\ s[Len(s)] \notin { " ", "\t" })

\* C16 as stated: on success the filter in the summary is the RUST_LOG
\* value without its leading and trailing whitespace.
C16_SummaryShowsTrimmed ==
    \A v \in ValidateCalls :
        (v.result.tag = "Ok" /\ IsSome(v.seen.RUST_LOG)) =>
            /\ HasNoOuterWhitespace(v.result.val.rust_log)
            /\ IsPaddingOf(Unwrap(v.seen.RUST_LOG), v.result.val.rust_log)

\* C16, amended: on success the filter in the summary is the RUST_LOG value
\* exactly as it was read, whitespace included ("info" when it is absent).
C16_SummaryShowsRaw ==
    \A v \in ValidateCalls :
        v.result.tag = "Ok" =>
            v.result.val.rust_log =
                IF IsSome(v.seen.RUST_LOG)
                THEN Unwrap(v.seen.RUST_LOG) ELSE << "info" >>

\* validate_config() succeeded on " debug " and shows it with its blanks
C16_Witness ==
    \E v \in ValidateCalls :
        /\ v.seen.RUST_LOG = Some(<< " ", "debug", " " >>)
        /\ v.result.tag = "Ok"
        /\ v.result.val.rust_log = << " ", "debug", " " >>

\* C17: a validate_config() or print_config() call on an invalid filter
\* returns the filter error and creates no directory; a step of such a
\* call that creates a directory is a call whose filter is valid.
C17_FilterBeforeDirectory ==
    [][ \A t \in Threads :
            Validates(t) =>
                /\ HasInvalidFilter(env) =>
                       /\ Unwrap(valOut'[t]).result.tag = "Err"
                       /\ Unwrap(valOut'[t]).result.val.what =
                              "Invalid RUST_LOG format"
                       /\ dirs' = dirs
                /\ dirs' # dirs =>
                       /\ ~HasInvalidFilter(env)
                       /\ dirs' = dirs \cup { Unwrap(env.LOG_FILE_DIR) }
      ]_vars

\* validate_config() returned the filter error under LOG_FILE_DIR "logs",
\* and the directory does not exist
C17_Witness ==
    /\ \E v \in ValidateCalls :
           /\ HasInvalidFilter(v.seen)
           /\ v.seen.LOG_FILE_DIR = Some("logs")
           /\ v.result.tag = "Err"
    /\ "logs" \notin dirs

====
